---- MODULE Spec2Model ----
(***************************************************************************)
(* Model of src/src/fuhlen-monitor.py: the 1 Hz loop of main() that        *)
(* watches the mouse's input-event device, decides when to probe the       *)
(* battery over USB, smooths and debounces the result and publishes it to  *)
(* the plain and the structured status file.                               *)
(*                                                                         *)
(* Time.  The code keeps the absolute timestamps last_activity_time and    *)
(* last_read_time and only ever uses the differences                       *)
(*     idle_time            = current_time - last_activity_time            *)
(*     time_since_last_read = current_time - last_read_time                *)
(* (lines 256-257) and the test last_read_time == 0 (line 263).  The model *)
(* keeps these two differences (since_activity, since_read) instead of the *)
(* timestamps; NEVER stands for last_read_time == 0.  Differences above    *)
(* the largest threshold they are compared with are stored as that cap.    *)
(* A probe is taken to be instantaneous at this granularity.               *)
(*                                                                         *)
(* Environment.  What the operating system answers (does the event device  *)
(* exist, does reading it raise, what does the sysfs scan find, what does  *)
(* the USB probe return, does a file write fail, how much wall-clock time  *)
(* passed during time.sleep) is an input of the step that asks, drawn      *)
(* from a small set.                                                       *)
(***************************************************************************)
EXTENDS Integers, Sequences, FiniteSets, TLC

VARIABLES
    pc,                    \* position in main(): "start", "loop", "decide", "read", "gone", "sleep";
                           \* "terminated" once an exception has left main()
    history,               \* main.history: the rolling list of successful readings
    na_failure_count,      \* main.na_failure_count
    since_activity,        \* current_time - last_activity_time, capped
    since_read,            \* current_time - last_read_time, capped; NEVER when last_read_time == 0
    event_path,            \* main.event_path (None or a /dev/input/eventX)
    event_signature,       \* main.event_signature
    cached_event_info,     \* module global _cached_event_info
    last_known_signature,  \* main.last_known_signature
    event_file,            \* main.event_file: TRUE when a handle is open, FALSE for None
    idle_time,             \* local idle_time of the current iteration
    time_since_last_read,  \* local time_since_last_read of the current iteration
    should_read,           \* local should_read of the current iteration
    bat,                   \* local bat: result of the last read_battery() of the iteration
    plain,                 \* content of OUTPUT_FILE (/tmp/fuhlen_battery)
    json,                  \* content of JSON_FILE (/tmp/fuhlen_battery.json)
    probes,                \* observation: number of read_battery() calls in the current iteration
    rule,                  \* observation: branch of the if/elif chain of lines 263-277 that was taken
    dropped,               \* observation: files whose write raised in the last sink write
    io_budget,             \* environment: number of file writes that will still raise
    published,             \* observation: final_bat of each update_output() call of the iteration
    popped,                \* observation: number of history.pop(0) in the iteration
    writes                 \* observation: for each update_output() call of the iteration, whether
                           \* reading the plain file raised and the value of should_write

vars == <<pc, history, na_failure_count, since_activity, since_read, event_path,
          event_signature, cached_event_info, last_known_signature, event_file,
          idle_time, time_since_last_read, should_read, bat, plain, json,
          probes, rule, dropped, io_budget, published, popped, writes>>

----------------------------------------------------------------------------
(* Program constants *)

IDLE_THRESHOLD_LIGHT == 30
IDLE_THRESHOLD_DEEP == 150
FORCE_READ_INTERVAL == 900
MIN_READ_INTERVAL == 300
NA_DEBOUNCE_COUNT == 3
max_history == 5
ACTIVE_IDLE == 1
GONE_RETRY == 10
RAW_OFFSET == 50
RAW_DIVISOR == 2

----------------------------------------------------------------------------
(* Bounds and input sets *)

\* na_failure_count grows without bound in the code, which only compares it with
\* NA_DEBOUNCE_COUNT; counts above this bound are stored as the bound.
MaxFailures == 4
\* In a run with an unreliable file system, at most this many file writes raise.
MaxIoFaults == 1
\* Device signatures (sysfs real paths) are 1..NSigs, event device paths 1..NPaths.
NSigs == 2
NPaths == 1

\* Python's None for a path or a signature (both are non-empty strings otherwise).
None == 0
\* last_read_time == 0: no probe has been attempted yet.
NEVER == -1

Sigs == 1..NSigs
Paths == 1..NPaths

\* Wall-clock seconds between two samples of time.time() at line 207.
Durations == {100, 300}

\* data[4] of a valid response frame: the bytes a sensor whose level moves can
\* send, and the byte of a sensor whose level is steady.
RawBytes == {130, 133}
SteadyBytes == {130}
\* The two ends of the range of a byte: data[4] is whatever the device sends.
EdgeBytes == {0, 255}

\* Outcome of opening and writing a status file: written; open() raised and the
\* file is as before; open() truncated the file and write() raised.
IoOutcomes == {"ok", "denied", "truncated"}

----------------------------------------------------------------------------
(* Pure helpers *)

\* An optional value (Python's None or a number) is <<>> or <<v>>.
Nothing == <<>>
Some(v) == <<v>>

RECURSIVE Sum(_)
Sum(s) == IF s = <<>> THEN 0 ELSE Head(s) + Sum(Tail(s))

\* round(total / n) of Python 3 for n > 0: to the nearest integer, a tie to the even one.
PyRound(total, n) ==
    LET q == total \div n
        r == total % n
    IN  IF 2 * r < n THEN q
        ELSE IF 2 * r > n THEN q + 1
        ELSE IF q % 2 = 0 THEN q ELSE q + 1

\* int(round(sum(history) / len(history)))
Mean(h) == PyRound(Sum(h), Len(h))

\* int(x / d) of Python for d > 0: the quotient truncated towards zero.
PyIntDiv(x, d) == IF x >= 0 THEN x \div d ELSE -((-x) \div d)

\* bat = int((data[4] - 50) / 2)
Scale(raw) == PyIntDiv(raw - RAW_OFFSET, RAW_DIVISOR)

\* Decimal text of an integer, one character per element, as an f-string renders it.
Digits == <<"0", "1", "2", "3", "4", "5", "6", "7", "8", "9">>

RECURSIVE NatStr(_)
NatStr(n) == IF n < 10 THEN <<Digits[n + 1]>> ELSE NatStr(n \div 10) \o <<Digits[(n % 10) + 1]>>

IntStr(n) == IF n < 0 THEN <<"-">> \o NatStr(-n) ELSE NatStr(n)

\* current_text = f"{final_bat}%" if final_bat is not None else "N/A"
Token(final_bat) ==
    IF final_bat = Nothing THEN <<"N", "/", "A">> ELSE IntStr(final_bat[1]) \o <<"%">>

\* str.strip(): leading and trailing white space removed.
IsSpace(c) == c \in {" ", "\n", "\t"}

RECURSIVE LStrip(_)
LStrip(t) == IF t # <<>> /\ IsSpace(Head(t)) THEN LStrip(Tail(t)) ELSE t

RECURSIVE RStrip(_)
RStrip(t) == IF t # <<>> /\ IsSpace(t[Len(t)]) THEN RStrip(SubSeq(t, 1, Len(t) - 1)) ELSE t

Strip(t) == RStrip(LStrip(t))

\* data = {"percentage": final_bat if final_bat is not None else 0, "is_present": final_bat is not None}
Record(final_bat) ==
    [percentage |-> IF final_bat = Nothing THEN 0 ELSE final_bat[1],
     is_present |-> final_bat # Nothing]

\* A missing (or empty) status file.
NoFile == <<>>

\* What open(..., "w") followed by write() leaves in a file.
Written(old, new, io) ==
    CASE io = "ok" -> new
      [] io = "denied" -> old
      [] io = "truncated" -> NoFile

----------------------------------------------------------------------------
(* Functions of the program *)

\* find_mouse_event_device(): the cached pair while its path still exists, else
\* the result of the sysfs scan (a <<path, signature>> pair, or <<None, None>>),
\* which becomes the new cache.  cached_exists is os.path.exists(cached_path).
find_mouse_event_device(cache, cached_exists, scan) ==
    IF cache[1] # None /\ cached_exists THEN cache ELSE scan

\* What the sysfs scan can find: nothing, or the mouse on some event device.
\* os.path.realpath() always yields a signature for a device that is found.
ScanResults == {<<None, None>>} \cup (Paths \X Sigs)

\* read_battery(): None, or the scaled byte of the first valid response frame.
read_battery(bytes) == {Nothing} \cup {Some(Scale(raw)) : raw \in bytes}

\* Push without the eviction: the list only grows.
Push_no_evict(h, v) == Append(h, v)

\* Push with the newest reading dropped instead of the oldest (history.pop()).
Push_drop_newest(h, v) ==
    LET a == Append(h, v) IN IF Len(a) > max_history THEN SubSeq(a, 1, max_history) ELSE a

\* history.append(bat); if len(history) > max_history: history.pop(0)
Push(h, v) ==
    LET a == Append(h, v) IN IF Len(a) > max_history THEN Tail(a) ELSE a

\* The value update_output() shows for a history: its rounded mean, or None.
FinalBat(h) == IF h # <<>> THEN Some(Mean(h)) ELSE Nothing

\* update_output() without the comparison with the plain file: every call writes.
update_output_always_writes(b, h, p, j, read_error, wp, wj) ==
    LET h1 == IF b # Nothing THEN Push(h, b[1]) ELSE h
        final_bat == FinalBat(h1)
        current_text == Token(final_bat)
    IN  [history |-> h1,
         final_bat |-> final_bat,
         should_write |-> TRUE,
         popped |-> IF b # Nothing /\ Len(h) + 1 > max_history THEN 1 ELSE 0,
         plain |-> Written(p, current_text, wp),
         json |-> Written(j, <<Record(final_bat)>>, wj),
         dropped |-> (IF wp # "ok" THEN {"plain"} ELSE {})
                     \cup (IF wj # "ok" THEN {"json"} ELSE {})]

\* update_output(bat, history) on the files p (plain) and j (structured).
\* read_error: reading the existing plain file raised (line 161);
\* wp, wj: outcome of the write to the plain and to the structured file.
update_output(b, h, p, j, read_error, wp, wj) ==
    LET h1 == IF b # Nothing THEN Push(h, b[1]) ELSE h
        final_bat == FinalBat(h1)
        current_text == Token(final_bat)
        should_write == ~(p # NoFile /\ ~read_error /\ Strip(p) = current_text)
    IN  [history |-> h1,
         final_bat |-> final_bat,
         should_write |-> should_write,
         popped |-> IF b # Nothing /\ Len(h) + 1 > max_history THEN 1 ELSE 0,
         plain |-> IF should_write THEN Written(p, current_text, wp) ELSE p,
         json |-> IF should_write THEN Written(j, <<Record(final_bat)>>, wj) ELSE j,
         dropped |-> IF should_write
                     THEN (IF wp # "ok" THEN {"plain"} ELSE {})
                          \cup (IF wj # "ok" THEN {"json"} ELSE {})
                     ELSE {}]

\* time_since_last_read = current_time - last_read_time, where last_read_time == 0
\* makes it the seconds since the epoch: more than every threshold.
ReadCap == FORCE_READ_INTERVAL + 1
TimeSinceLastRead == IF since_read = NEVER THEN ReadCap ELSE since_read

\* RuleA without the test for a changed signature.
RuleA_cold_start_only == since_read = NEVER

\* Condition of line 263.
RuleA ==
    \/ since_read = NEVER
    \/ (event_path # None /\ event_signature # None
        /\ event_signature # last_known_signature)

\* Condition of line 270.
RuleB(idle) == idle > IDLE_THRESHOLD_LIGHT /\ idle < IDLE_THRESHOLD_DEEP

\* Condition of line 275.
RuleC(idle) == idle < ACTIVE_IDLE

\* DeviceGone taken only when the scheduled read did not run in the iteration.
DeviceGone_unless_read ==
    event_path = None /\ time_since_last_read > GONE_RETRY /\ ~should_read

\* Condition of line 306.
DeviceGone == event_path = None /\ time_since_last_read > GONE_RETRY

----------------------------------------------------------------------------
(* Initial state: main() is about to run; the status files are as an        *)
(* earlier run of the program left them (both missing, or a token with its  *)
(* record).                                                                *)

\* The files an earlier run that saw the given bytes can have left.
LeftBehind(bytes) ==
    {<<NoFile, NoFile>>}
    \cup {<<Token(fb), <<Record(fb)>>>> :
             fb \in {Nothing, Some(0)} \cup {Some(Scale(raw)) : raw \in bytes}}

InitWith(bytes, budget) ==
    /\ pc = "start"
    /\ history = <<>>
    /\ na_failure_count = 0
    /\ since_activity = 0
    /\ since_read = NEVER
    /\ event_path = None
    /\ event_signature = None
    /\ cached_event_info = <<None, None>>
    /\ last_known_signature = None
    /\ event_file = FALSE
    /\ idle_time = 0
    /\ time_since_last_read = 0
    /\ should_read = FALSE
    /\ bat = Nothing
    /\ \E f \in LeftBehind(bytes) : plain = f[1] /\ json = f[2]
    /\ probes = 0
    /\ rule = "none"
    /\ dropped = {}
    /\ io_budget = budget
    /\ published = <<>>
    /\ popped = 0
    /\ writes = <<>>

\* A run in which no file write raises, with a sensor whose level moves.
Init == InitWith(RawBytes, 0)

\* A run in which file writes can raise, with a sensor whose level is steady.
InitIO == InitWith(SteadyBytes, MaxIoFaults)

\* A run in which no file write raises, with a sensor whose level is steady.
InitSteady == InitWith(SteadyBytes, 0)

----------------------------------------------------------------------------
(* Steps of main() *)

\* LightSleepDue with the force-read interval in place of the minimum interval.
LightSleepDue_force_interval(tsr) == tsr > FORCE_READ_INTERVAL

\* ForceDue with the minimum interval in place of the force-read interval.
ForceDue_min_interval(tsr) == tsr > MIN_READ_INTERVAL

\* Debounced already at the first failure: no debounce.
Debounced_at_once(n) == n >= 1

\* Debounced one failure late.
Debounced_late(n) == n > NA_DEBOUNCE_COUNT

\* Condition of line 271.
LightSleepDue(tsr) == tsr > MIN_READ_INTERVAL

\* Condition of line 276.
ForceDue(tsr) == tsr > FORCE_READ_INTERVAL

\* Conditions of lines 291, 295 and 311 on the failure counter.
Debounced(n) == n >= NA_DEBOUNCE_COUNT

Min(a, b) == IF a < b THEN a ELSE b

\* Lines 182-204: seed history from the structured file, rewrite the plain
\* file, look for the event device.
Startup ==
    /\ pc = "start"
    /\ \E io \in IoOutcomes, scan \in ScanResults :
        LET seed == json # NoFile /\ json[1].percentage # 0 /\ json[1].is_present
            found == find_mouse_event_device(cached_event_info, FALSE, scan)
        IN  /\ history' = IF seed THEN <<json[1].percentage>> ELSE <<>>
            /\ plain' = IF seed
                        THEN Written(plain, Token(Some(json[1].percentage)), io)
                        ELSE plain
            /\ dropped' = IF seed /\ io # "ok" THEN {"plain"} ELSE {}
            /\ io_budget' = io_budget - Cardinality(dropped')
            /\ io_budget' >= 0
            /\ event_path' = found[1]
            /\ event_signature' = found[2]
            /\ cached_event_info' = found
    /\ last_known_signature' = None
    /\ event_file' = FALSE
    /\ pc' = "loop"
    /\ UNCHANGED <<na_failure_count, since_activity, since_read, idle_time,
                   time_since_last_read, should_read, bat, json, probes, rule,
                   published, popped, writes>>

\* Lines 207-253: step 1 of an iteration, the activity check.
\*   exists        os.path.exists(event_path) at line 210
\*   raises        opening or reading the event device raises (lines 213-224)
\*   has_activity  an input event was pending
\*   cached_exists, scan   what find_mouse_event_device() sees at lines 241/250

\* Lines 212-233: the event device was read without an exception.
ActivityRead(has_activity) ==
    /\ event_file' = TRUE
    /\ since_activity' = IF has_activity THEN 0 ELSE since_activity
    /\ UNCHANGED <<event_path, event_signature, cached_event_info,
                   last_known_signature>>

\* Lines 235-243: reading raised; drop the handle and look for the device again.
ActivityRaised(found) ==
    /\ event_file' = FALSE
    /\ event_path' = found[1]
    /\ event_signature' = found[2]
    /\ cached_event_info' = found
    /\ last_known_signature' = IF found[1] = None THEN None ELSE last_known_signature
    /\ UNCHANGED since_activity

\* Lines 244-253: no event device; look for it and take the mouse as active.
ActivityMissing(found) ==
    /\ event_file' = FALSE
    /\ event_path' = found[1]
    /\ event_signature' = found[2]
    /\ cached_event_info' = found
    /\ last_known_signature' = IF found[1] = None THEN None ELSE last_known_signature
    /\ since_activity' = 0

\* The results find_mouse_event_device() can give for the current cache.
Findable ==
    {find_mouse_event_device(cached_event_info, cached_exists, scan) :
        cached_exists \in BOOLEAN, scan \in ScanResults}

CheckActivity ==
    /\ pc = "loop"
    /\ \E exists \in BOOLEAN :
        IF event_path # None /\ exists
        THEN \E raises \in BOOLEAN :
                IF ~raises
                THEN \E has_activity \in BOOLEAN : ActivityRead(has_activity)
                ELSE \E found \in Findable : ActivityRaised(found)
        ELSE \E found \in Findable : ActivityMissing(found)
    /\ pc' = "decide"
    /\ UNCHANGED <<history, na_failure_count, since_read, idle_time,
                   time_since_last_read, should_read, bat, plain, json, probes,
                   rule, dropped, io_budget, published, popped, writes>>

\* Lines 255-279: step 2, the scheduling decision, every print() succeeding.
Decide ==
    /\ pc = "decide"
    /\ idle_time' = since_activity
    /\ time_since_last_read' = TimeSinceLastRead
    /\ IF RuleA
       THEN /\ should_read' = TRUE
            /\ rule' = "A"
            /\ last_known_signature' =
                   IF event_signature # None THEN event_signature
                   ELSE last_known_signature
       ELSE IF RuleB(since_activity)
       THEN /\ should_read' = LightSleepDue(TimeSinceLastRead)
            /\ rule' = "B"
            /\ UNCHANGED last_known_signature
       ELSE IF RuleC(since_activity)
       THEN /\ should_read' = ForceDue(TimeSinceLastRead)
            /\ rule' = "C"
            /\ UNCHANGED last_known_signature
       ELSE /\ should_read' = FALSE
            /\ rule' = "D"
            /\ UNCHANGED last_known_signature
    /\ pc' = "read"
    /\ UNCHANGED <<history, na_failure_count, since_activity, since_read,
                   event_path, event_signature, cached_event_info, event_file,
                   bat, plain, json, probes, dropped, io_budget,
                   published, popped, writes>>

\* Lines 256-264 when print() at line 264 raises (standard output is a pipe or
\* terminal that is gone): no handler encloses the statement, the exception
\* leaves the loop and main(), and the process ends.
PrintRaises ==
    /\ pc = "decide"
    /\ RuleA
    /\ idle_time' = since_activity
    /\ time_since_last_read' = TimeSinceLastRead
    /\ pc' = "terminated"
    /\ UNCHANGED <<history, na_failure_count, since_activity, since_read,
                   event_path, event_signature, cached_event_info,
                   last_known_signature, event_file, should_read, bat, plain,
                   json, probes, rule, dropped, io_budget, published, popped,
                   writes>>

\* The sink inputs that matter for a call of update_output(): the read of the
\* plain file can raise only if the file is there, and a write that is not
\* attempted has no outcome.
SinkInputs(b, h) ==
    {io \in [read_error : BOOLEAN, wp : IoOutcomes, wj : IoOutcomes] :
        /\ (io.read_error => plain # NoFile)
        /\ (~update_output(b, h, plain, json, io.read_error, "ok", "ok").should_write
               => io.wp = "ok" /\ io.wj = "ok")}

\* A call of update_output(b, h) from main(): the files, and what is observed of it.
Publish(b, h, io) ==
    LET out == update_output(b, h, plain, json, io.read_error, io.wp, io.wj)
    IN  /\ history' = out.history
        /\ plain' = out.plain
        /\ json' = out.json
        /\ dropped' = out.dropped
        /\ io_budget' = io_budget - Cardinality(out.dropped)
        /\ io_budget' >= 0
        /\ published' = Append(published, out.final_bat)
        /\ popped' = popped + out.popped
        /\ writes' = Append(writes, [read_error |-> io.read_error,
                                      should_write |-> out.should_write])

\* No call of update_output().
NoPublish ==
    UNCHANGED <<history, plain, json, dropped, io_budget, published, popped, writes>>

\* read_battery() returning b.
Probed(b) ==
    /\ bat' = b
    /\ probes' = probes + 1

\* na_failure_count += 1, stored up to the model's bound.
Counted(n) == Min(n + 1, MaxFailures)

\* ScheduledDebounce with the sink called on every failure: below the
\* threshold it publishes the mean of the History as it is.
ScheduledDebounce_always_publish(b) ==
    LET n == IF b = Nothing THEN Counted(na_failure_count) ELSE 0
    IN  /\ na_failure_count' = n
        /\ IF b = Nothing /\ ~Debounced(n)
           THEN \E io \in SinkInputs(Nothing, history) : Publish(Nothing, history, io)
           ELSE IF b = Nothing /\ Debounced(n)
           THEN \E io \in SinkInputs(Nothing, <<>>) : Publish(Nothing, <<>>, io)
           ELSE \E io \in SinkInputs(b, history) : Publish(b, history, io)

\* Lines 285-301: the debounce of the scheduled read.
ScheduledDebounce(b) ==
    LET n == IF b = Nothing THEN Counted(na_failure_count) ELSE 0
    IN  /\ na_failure_count' = n
        /\ IF b = Nothing /\ ~Debounced(n)
           THEN NoPublish
           ELSE IF b = Nothing /\ Debounced(n)
           THEN \E io \in SinkInputs(Nothing, <<>>) : Publish(Nothing, <<>>, io)
           ELSE \E io \in SinkInputs(b, history) : Publish(b, history, io)

\* ForcedDebounce that only counts the failures: the sink is called on success alone.
ForcedDebounce_count_only(b) ==
    LET n == IF b = Nothing THEN Counted(na_failure_count) ELSE 0
    IN  /\ na_failure_count' = n
        /\ IF b = Nothing
           THEN NoPublish
           ELSE \E io \in SinkInputs(b, history) : Publish(b, history, io)

\* Lines 309-316: the debounce of the forced read.
ForcedDebounce(b) ==
    LET n == IF b = Nothing THEN Counted(na_failure_count) ELSE 0
    IN  /\ na_failure_count' = n
        /\ IF b = Nothing
           THEN IF Debounced(n)
                THEN \E io \in SinkInputs(Nothing, <<>>) : Publish(Nothing, <<>>, io)
                ELSE NoPublish
           ELSE \E io \in SinkInputs(b, history) : Publish(b, history, io)

\* Lines 283-303: step 3, the scheduled read and its debounce.
ScheduledRead(bytes) ==
    /\ pc = "read"
    /\ should_read
    /\ \E b \in read_battery(bytes) : Probed(b) /\ ScheduledDebounce(b)
    /\ since_read' = 0
    /\ pc' = "gone"
    /\ UNCHANGED <<since_activity, event_path, event_signature, cached_event_info,
                   last_known_signature, event_file, idle_time,
                   time_since_last_read, should_read, rule>>

\* Line 282 when should_read is false.
SkipRead ==
    /\ pc = "read"
    /\ ~should_read
    /\ pc' = "gone"
    /\ UNCHANGED <<history, na_failure_count, since_activity, since_read,
                   event_path, event_signature, cached_event_info,
                   last_known_signature, event_file, idle_time,
                   time_since_last_read, should_read, bat, plain, json, probes,
                   rule, dropped, io_budget, published, popped, writes>>

\* Lines 306-318: step 4, the read that confirms a device that is gone.
ForcedRead(bytes) ==
    /\ pc = "gone"
    /\ DeviceGone
    /\ \E b \in read_battery(bytes) : Probed(b) /\ ForcedDebounce(b)
    /\ since_read' = 0
    /\ pc' = "sleep"
    /\ UNCHANGED <<since_activity, event_path, event_signature, cached_event_info,
                   last_known_signature, event_file, idle_time,
                   time_since_last_read, should_read, rule>>

\* Line 306 when its condition is false.
SkipForced ==
    /\ pc = "gone"
    /\ ~DeviceGone
    /\ pc' = "sleep"
    /\ UNCHANGED <<history, na_failure_count, since_activity, since_read,
                   event_path, event_signature, cached_event_info,
                   last_known_signature, event_file, idle_time,
                   time_since_last_read, should_read, bat, plain, json, probes,
                   rule, dropped, io_budget, published, popped, writes>>

\* Line 320 and line 207 of the next iteration: time.sleep(1), then
\* current_time = time.time().  The locals of the iteration that ends are
\* dead (each is assigned at lines 256-259, 283 or 308 before it is read
\* again) and restart from their initial values, as do the observations.
Sleep ==
    /\ pc = "sleep"
    /\ \E dt \in Durations :
        /\ since_activity' = Min(since_activity + dt, IDLE_THRESHOLD_DEEP)
        /\ since_read' = IF since_read = NEVER THEN NEVER
                         ELSE Min(since_read + dt, ReadCap)
    /\ idle_time' = 0
    /\ time_since_last_read' = 0
    /\ should_read' = FALSE
    /\ bat' = Nothing
    /\ probes' = 0
    /\ rule' = "none"
    /\ dropped' = {}
    /\ published' = <<>>
    /\ popped' = 0
    /\ writes' = <<>>
    /\ pc' = "loop"
    /\ UNCHANGED <<history, na_failure_count, event_path, event_signature,
                   cached_event_info, last_known_signature, event_file, plain, json,
                   io_budget>>

Next ==
    \/ Startup
    \/ CheckActivity
    \/ Decide
    \/ ScheduledRead(RawBytes)
    \/ SkipRead
    \/ ForcedRead(RawBytes)
    \/ SkipForced
    \/ Sleep

NextIO ==
    \/ Startup
    \/ CheckActivity
    \/ Decide
    \/ ScheduledRead(SteadyBytes)
    \/ SkipRead
    \/ ForcedRead(SteadyBytes)
    \/ SkipForced
    \/ Sleep

\* The program when standard output can fail, with a sensor whose level is steady.
NextOut ==
    \/ Startup
    \/ CheckActivity
    \/ Decide
    \/ PrintRaises
    \/ ScheduledRead(SteadyBytes)
    \/ SkipRead
    \/ ForcedRead(SteadyBytes)
    \/ SkipForced
    \/ Sleep

\* The program with a sensor whose level is steady.
NextSteady ==
    \/ Startup
    \/ CheckActivity
    \/ Decide
    \/ ScheduledRead(SteadyBytes)
    \/ SkipRead
    \/ ForcedRead(SteadyBytes)
    \/ SkipForced
    \/ Sleep

\* The program when the device can send any byte as data[4].
NextRaw ==
    \/ Startup
    \/ CheckActivity
    \/ Decide
    \/ ScheduledRead(EdgeBytes)
    \/ SkipRead
    \/ ForcedRead(EdgeBytes)
    \/ SkipForced
    \/ Sleep

\* The program when no file write raises and standard output accepts every line.
Spec == Init /\ [][Next]_vars

\* The program when no file write raises and writing to standard output can raise.
SpecOut == InitSteady /\ [][NextOut]_vars

\* The program when no file write raises and the loop keeps running: main() is
\* the only thread and every statement of the loop returns, time.sleep(1)
\* included, so a step that is possible is eventually taken.
SpecFair == InitSteady /\ [][NextSteady]_vars /\ WF_vars(NextSteady)

\* The program when the device can send any byte; the status files it starts
\* with were left by a run that saw percentages in range.
SpecRaw == InitSteady /\ [][NextRaw]_vars

\* The program with a file system whose writes can raise.
SpecIO == InitIO /\ [][NextIO]_vars

----------------------------------------------------------------------------
(* Properties *)

\* The last n elements of a sequence, or all of it when it is shorter.
LastUpTo(q, n) == IF Len(q) <= n THEN q ELSE SubSeq(q, Len(q) - n + 1, Len(q))

Abs(x) == IF x < 0 THEN -x ELSE x

\* The integer nearest to the mean of a non-empty sequence, the even one of two
\* that are equally near.
NearestToMean(q) ==
    LET vals == {q[i] : i \in 1..Len(q)}
        lo == CHOOSE x \in vals : \A y \in vals : x <= y
        hi == CHOOSE x \in vals : \A y \in vals : x >= y
        off(m) == Abs(m * Len(q) - Sum(q))
    IN  CHOOSE m \in lo..hi :
            /\ 2 * off(m) <= Len(q)
            /\ (2 * off(m) = Len(q) => m % 2 = 0)

NAText == <<"N", "/", "A">>
AbsentRecord == <<[percentage |-> 0, is_present |-> FALSE]>>

\* A step in which read_battery() was called and failed / returned a value.
ProbeFails == probes' = probes + 1 /\ bat' = Nothing
ProbeSucceeds == probes' = probes + 1 /\ bat' # Nothing

C3_SuccessSmooths ==
    [][ProbeSucceeds
         => LET expect == LastUpTo(Append(history, bat'[1]), 5)
            IN  /\ history' = expect
                /\ na_failure_count' = 0
                /\ published' # <<>>
                /\ published'[Len(published')] = Some(NearestToMean(expect))
                /\ \/ plain' = Token(Some(NearestToMean(expect)))
                   \/ "plain" \in dropped']_vars

\* C3 witness: a success that evicted the oldest of five readings, History
\* holding different values.
C3_Witness ==
    /\ pc = "sleep"
    /\ bat # Nothing
    /\ popped >= 1
    /\ Len(history) = 5
    /\ history[1] # history[5]
    /\ na_failure_count = 0
    /\ plain = Token(Some(NearestToMean(history)))

\* C4: when the scheduling decision is taken with no probe ever attempted, or
\* with a located device whose signature differs from the known one, it asks
\* for a read and sets the known signature to the observed one, and a read
\* that is asked for is carried out in the same iteration.
C4_ColdStartOrNewConnection ==
    /\ [][(/\ pc = "decide"
           /\ \/ since_read = NEVER
              \/ (event_path # None /\ event_signature # last_known_signature))
            => (should_read' /\ last_known_signature' = event_signature)]_vars
    /\ []((pc \in {"gone", "sleep"} /\ should_read) => probes >= 1)

\* C4 witness: a changed signature forced a read 100 s after the last one,
\* with the mouse idle for 150 s or more.
C4_Witness ==
    /\ pc = "sleep"
    /\ rule = "A"
    /\ event_path # None
    /\ last_known_signature = event_signature
    /\ time_since_last_read = 100
    /\ idle_time = 150
    /\ probes = 1

\* C5 as stated: an iteration with idle time strictly between 30 and 150 and
\* at least 300 s since the last probe attempt issues a probe.
C5_Original ==
    (pc = "sleep" /\ idle_time > 30 /\ idle_time < 150 /\ time_since_last_read >= 300)
        => probes >= 1

\* C5 amended: an iteration with idle time strictly between 30 and 150 and
\* more than 300 s since the last probe attempt issues a probe.
C5_LightSleepReads ==
    (pc = "sleep" /\ idle_time > 30 /\ idle_time < 150 /\ time_since_last_read > 300)
        => probes >= 1

\* C5 witness: the light-sleep rule itself asked for the read.
C5_Witness ==
    /\ pc = "sleep"
    /\ rule = "B"
    /\ event_path # None
    /\ idle_time = 100
    /\ time_since_last_read > 300
    /\ probes = 1

\* C6: an iteration with idle time strictly between 30 and 150 and at most
\* 300 s since the last probe attempt, in which rule 1 did not apply, issues
\* no probe.
C6_MinInterval ==
    (pc = "sleep" /\ idle_time > 30 /\ idle_time < 150 /\ time_since_last_read <= 300
        /\ rule # "A")
        => probes = 0

\* C7 as stated: with the device located, rule 1 not applying and idle time
\* under 1 s, a probe is issued exactly when at least 900 s have passed since
\* the last attempt.
C7_Original ==
    (pc = "sleep" /\ event_path # None /\ rule # "A" /\ idle_time < 1)
        => ((probes >= 1) <=> (time_since_last_read >= 900))

\* C7 amended: with the device located, rule 1 not applying and idle time
\* under 1 s, a probe is issued exactly when more than 900 s have passed since
\* the last attempt.
C7_ForceRead ==
    (pc = "sleep" /\ event_path # None /\ rule # "A" /\ idle_time < 1)
        => ((probes >= 1) <=> (time_since_last_read > 900))

\* C7 witness: the force-read rule asked for the read of an active mouse.
C7_Witness ==
    /\ pc = "sleep"
    /\ rule = "C"
    /\ event_path # None
    /\ idle_time = 0
    /\ time_since_last_read > 900
    /\ probes = 1

\* C8: an iteration with idle time of 150 s or more in which rule 1 did not
\* apply issues no probe.
C8_DeepSleep ==
    (pc = "sleep" /\ idle_time >= 150 /\ rule # "A") => probes = 0

\* C9: in an iteration in which the device is not located after the activity
\* check, the last activity is the current time and the idle time the rules
\* use is 0.
C9_ActivityReset ==
    (pc \in {"decide", "read", "gone", "sleep"} /\ event_path = None)
        => (since_activity = 0 /\ (pc # "decide" => idle_time = 0))

\* C10: when step 4 is reached with the device not located and more than 10 s
\* since the last attempt, a probe is made whatever the scheduling decision
\* was; a failure adds 1 to the failure counter (which the model stores up to
\* MaxFailures), emptying History from 3 on and leaving it alone below; a
\* success resets the counter and appends to History.
C10_ForcedAttempt ==
    [][(pc = "gone" /\ event_path = None /\ time_since_last_read > 10)
         => /\ probes' = probes + 1
            /\ IF bat' = Nothing
               THEN /\ na_failure_count' = Min(na_failure_count + 1, MaxFailures)
                    /\ history' = IF na_failure_count' >= 3 THEN <<>> ELSE history
               ELSE /\ na_failure_count' = 0
                    /\ history' = LastUpTo(Append(history, bat'[1]), 5)]_vars

\* C10 witness: a forced read, the only probe of its iteration, succeeded and
\* went into a history that had readings.
C10_Witness ==
    /\ pc = "sleep"
    /\ event_path = None
    /\ ~should_read
    /\ probes = 1
    /\ bat # Nothing
    /\ na_failure_count = 0
    /\ Len(history) >= 2

\* A step in which update_output() was called.
Publishes == Len(published') = Len(published) + 1

Lockstep(p, j) ==
    \/ (p = NoFile /\ j = NoFile)
    \/ /\ j # NoFile
       /\ (~j[1].is_present => j[1].percentage = 0)
       /\ p = Token(IF j[1].is_present THEN Some(j[1].percentage) ELSE Nothing)

\* C12: in every state after startup seeding the structured file agrees with
\* the plain file: the plain token is "<n>%" exactly when the record is
\* {percentage: n, is_present: true} and "N/A" exactly when it is
\* {percentage: 0, is_present: false}, also after a write has failed.
C12_Lockstep == pc # "start" => Lockstep(plain, json)

\* C13: a write that raised is retried by the next publish: after every call
\* of the sink in which no write raises, the plain file holds the token of the
\* published value and the structured file its record.
C13_RetriedByNextPublish ==
    [][(Publishes /\ dropped' = {})
         => /\ plain' = Token(published'[Len(published')])
            /\ json' = <<Record(published'[Len(published')])>>]_vars

\* C14: startup with a structured record {percentage: p, is_present: true},
\* p in 0..100, leaves History = [p] and the plain file holding "p%"; with the
\* record missing or not present it leaves History empty and the plain file
\* as it was.  (No probe runs before the first iteration, so this is the
\* state before any probe completes.)
C14_StartupSeeding ==
    [][pc = "start"
         => IF json # NoFile /\ json[1].is_present /\ json[1].percentage \in 0..100
            THEN /\ history' = <<json[1].percentage>>
                 /\ plain' = Token(Some(json[1].percentage))
            ELSE /\ history' = <<>>
                 /\ plain' = plain]_vars

\* C15: no exception raised in the body of an iteration ends the process: the
\* loop catches it, sleeps and runs the next iteration.
C15_NeverTerminates == pc # "terminated"

\* C16: History always has between 0 and 5 entries, and a History that has
\* entries becomes empty only in the handling of a failed probe that brings
\* the failure counter to 3 or more.
C16_HistoryBound ==
    /\ [](Len(history) >= 0 /\ Len(history) <= 5)
    /\ [][(history # <<>> /\ history' = <<>>)
            => (ProbeFails /\ na_failure_count' >= 3)]_vars

\* C16 witness: History is full after two successful probes of one iteration,
\* the second of which evicted the oldest entry.
C16_Witness ==
    /\ pc = "sleep"
    /\ probes = 2
    /\ bat # Nothing
    /\ Len(published) = 2
    /\ Len(history) = 5
    /\ popped >= 1
    /\ na_failure_count = 0

\* C17: whatever byte the device sends, the probe returns a percentage in
\* 0..100, and in every state the plain file holds "N/A" or "<n>%" with n in
\* 0..100 and the structured record a percentage in 0..100.
C17_DisplayedRange ==
    /\ (bat # Nothing => bat[1] \in 0..100)
    /\ (plain \in {NoFile, NAText} \/ \E n \in 0..100 : plain = Token(Some(n)))
    /\ (json = NoFile \/ json[1].percentage \in 0..100)

\* C18: an iteration calls read_battery() at most once, so the failure counter
\* grows by at most 1 in an iteration.
C18_OneProbePerTick == probes <= 1

\* The first probe ever attempted fails while History is empty.
FirstProbeFails == ProbeFails /\ since_read = NEVER /\ history = <<>>

\* C19 as stated: when the first probe ever attempted fails with History
\* empty, the sink persists the absent value at once: the plain file holds
\* "N/A" and the structured file the absent record.
C19_Original ==
    [][FirstProbeFails => (plain' = NAText /\ json' = AbsentRecord)]_vars

\* C19 amended: when the first probe ever attempted fails with History empty,
\* the failure counter becomes 1, the sink is not called, History stays empty
\* and both files are left as they were.
C19_FirstFailureKept ==
    [][FirstProbeFails
         => /\ na_failure_count' = 1
            /\ history' = <<>>
            /\ published' = published
            /\ writes' = writes
            /\ plain' = plain
            /\ json' = json]_vars

\* C19 witness: the first probe has failed, no status file exists yet and none
\* was created.
C19_Witness ==
    /\ pc = "gone"
    /\ rule = "A"
    /\ probes = 1
    /\ bat = Nothing
    /\ na_failure_count = 1
    /\ history = <<>>
    /\ published = <<>>
    /\ plain = NoFile
    /\ json = NoFile

\* The device is not located and no probe returns a value.
DeviceStaysGone == event_path = None /\ (probes > 0 => bat = Nothing)

\* C20: if from some point on the device is never located and every probe
\* fails, then (no write raising, the loop running forever) every iteration
\* with more than 10 s since the last attempt makes a forced attempt, and from
\* some point on the failure counter is 3 or more, History is empty, the plain
\* file holds "N/A" and the structured file the absent record.
C20_RemovalReported ==
    /\ []((pc = "sleep" /\ event_path = None /\ time_since_last_read > 10)
           => probes >= 1)
    /\ (<>[]DeviceStaysGone
          => <>[](/\ na_failure_count >= 3
                  /\ history = <<>>
                  /\ plain = NAText
                  /\ json = AbsentRecord))

\* C20 witness: the forced attempt on a device that is gone has failed for the
\* third time in a row and replaced the value that was shown by "N/A".
C20_Witness ==
    /\ pc = "sleep"
    /\ event_path = None
    /\ ~should_read
    /\ probes = 1
    /\ bat = Nothing
    /\ na_failure_count = 3
    /\ history = <<>>
    /\ Len(writes) = 1
    /\ writes[1].should_write
    /\ plain = NAText
    /\ json = AbsentRecord

====
